---- MODULE Spec2Model ----
(***************************************************************************)
(* Riverside coffee-shop analysis: the grid search and place collection of *)
(* scripts/01_get_all_coffee_shops.py, the spatial join, aggregation and   *)
(* weighted rating of scripts/02_master_script.py, and the hotspot filter  *)
(* of scripts/03_analyze_data.py.                                          *)
(*                                                                         *)
(* Four specifications share the module:                                   *)
(*   Spec      the __main__ run of 01 (grid, pagination, registry merge)   *)
(*   SpecGrid  create_search_grid applied to bounded inputs                *)
(*   SpecAgg   main of 02 applied to bounded shop / tract tables           *)
(*   SpecHot   the hotspot filter of 03 applied to bounded region tables   *)
(* The variables of the scripts a specification does not run stay at their *)
(* idle values.                                                            *)
(***************************************************************************)
EXTENDS Integers, Sequences, FiniteSets, TLC

VARIABLES
    \* ---- 01_get_all_coffee_shops.py, __main__ and fetch_places
    pc,            \* position of the run
    total_bounds,  \* tracts_gdf.total_bounds: <<minx, miny, maxx, maxy>>
    search_grid,   \* the list create_search_grid returned
    i,             \* 1-based index of the grid point being searched
    url,           \* fetch_places: "seed", "pagetoken" or "None"
    page_count,    \* fetch_places: pages drawn for this point
    results,       \* fetch_places: places appended so far for this point
    broke,         \* fetch_places: the while loop was left by `break`
    all_places,    \* the registry: an insertion-ordered dict, <<key, place>> entries
    requests,      \* history: requests.get calls issued for this point
    drawn,         \* history: place_ids seen in any page drawn so far
    searched,      \* history: grid indices whose seed request was issued
    last_failure,  \* history: <<grid index, page number>> of the latest failed request
    reobserved,    \* history: a merge met a place_id a second time
    waited,        \* history: seconds slept since the last response of this point
    \* ---- create_search_grid on its own
    g_bounds, g_radius_m, g_state, g_points,
    \* ---- 02_master_script.py, main
    a_pc, shops_df, tracts_gdf, demographics_df, final_gdf, C_m,
    \* ---- 03_analyze_data.py, main
    h_pc, gdf, hotspots_df

collectVars == <<pc, total_bounds, search_grid, i, url, page_count, results, broke,
                 all_places, requests, drawn, searched, last_failure, reobserved,
                 waited>>
gridVars == <<g_bounds, g_radius_m, g_state, g_points>>
aggVars == <<a_pc, shops_df, tracts_gdf, demographics_df, final_gdf, C_m>>
hotVars == <<h_pc, gdf, hotspots_df>>
vars == <<collectVars, gridVars, aggVars, hotVars>>

----------------------------------------------------------------------------
(* Bounds of the model. *)

MaxCols == 2        \* Spec: widest search area, in grid columns
MaxPageLen == 1     \* Spec: most places in one page of a response
MaxCoord == 7       \* SpecGrid: largest coordinate of a bounding box
MaxRadius == 2      \* SpecGrid: largest search radius, in metres
MaxShops == 2       \* SpecAgg: most rows of the shops table
MaxRegions == 3     \* SpecHot: most rows of the region table

----------------------------------------------------------------------------
(* Idle values of the variables a specification does not use. *)

CollectIdle ==
    /\ pc = "idle" /\ total_bounds = <<0, 0, 0, 0>> /\ search_grid = <<>>
    /\ i = 0 /\ url = "None" /\ page_count = 0 /\ results = <<>> /\ broke = FALSE
    /\ all_places = <<>> /\ requests = 0 /\ drawn = {} /\ searched = {}
    /\ last_failure = <<0, 0>> /\ reobserved = FALSE /\ waited = 0

GridIdle ==
    /\ g_bounds = <<0, 0, 0, 0>> /\ g_radius_m = 0 /\ g_state = "idle"
    /\ g_points = <<>>

AggIdle ==
    /\ a_pc = "idle" /\ shops_df = <<>> /\ tracts_gdf = <<>>
    /\ demographics_df = <<>> /\ final_gdf = <<>> /\ C_m = <<>>

HotIdle ==
    /\ h_pc = "idle" /\ gdf = <<>> /\ hotspots_df = <<>>

----------------------------------------------------------------------------
(* create_search_grid.  Coordinates are integers in units of 1/222222      *)
(* degree, so that radius_m / 111111.0 degrees is 2 * radius_m units and   *)
(* the spacing radius_deg * 1.5 is 3 * radius_m units, both exact.         *)

radius_deg(radius_m) == 2 * radius_m

GridStep(radius_m) == 3 * radius_m

\* ceil(a / b) for b # 0
CeilDiv(a, b) ==
    IF b > 0 THEN -((-a) \div b) ELSE -(a \div (-b))

\* np.arange(start, stop, step) raises when step is 0 (division by zero in
\* the length computation).
arange_raises(start, stop, step) == step = 0

\* np.arange(start, stop, step): max(0, ceil((stop - start) / step)) values
\* start, start + step, ...
arange(start, stop, step) ==
    LET n == CeilDiv(stop - start, step)
        len == IF n > 0 THEN n ELSE 0
    IN [k \in 1..len |-> start + (k - 1) * step]

create_search_grid_raises(bounds, radius_m) ==
    \/ arange_raises(bounds[1], bounds[3], GridStep(radius_m))
    \/ arange_raises(bounds[2], bounds[4], GridStep(radius_m))

\* The nested loops: for x in x_coords: for y in y_coords: append "y,x".
\* A grid point is <<latitude, longitude>> = <<y, x>>.
create_search_grid(bounds, radius_m) ==
    LET x_coords == arange(bounds[1], bounds[3], GridStep(radius_m))
        y_coords == arange(bounds[2], bounds[4], GridStep(radius_m))
        nx == Len(x_coords)
        ny == Len(y_coords)
    IN [k \in 1..(nx * ny) |->
            <<y_coords[((k - 1) % ny) + 1], x_coords[((k - 1) \div ny) + 1]>>]

----------------------------------------------------------------------------
(* 01_get_all_coffee_shops.py: configuration, responses, the registry.     *)

RADIUS == 2000

\* The search areas Spec starts from: one grid row, 0..MaxCols grid columns.
Boxes ==
    {<<0, 0, c * GridStep(RADIUS), GridStep(RADIUS)>> : c \in 0..MaxCols}

PlaceIds == {"p1", "p2"}

Ratings == {4, 5}

\* A place as fetch_places records it: the key and the payload fetched with it
\* (rating stands for the fields that may differ between two observations).
Places == [place_id : PlaceIds, rating : Ratings]

\* data.get('results', []) of one page: at most MaxPageLen places.
Pages == UNION {[1..n -> Places] : n \in 0..MaxPageLen}

Ids(places) == {places[k].place_id : k \in 1..Len(places)}

\* The dict all_places as the sequence of its <<key, value>> items.
Keys(d) == {d[k][1] : k \in 1..Len(d)}

Count(d, key) == Cardinality({k \in 1..Len(d) : d[k][1] = key})

\* A mutation of DictSet: a list append, which keeps every observation.
DictAppend(d, key, value) == Append(d, <<key, value>>)

\* all_places[key] = value: overwrite the item of an existing key in place,
\* append a new key.
DictSet(d, key, value) ==
    IF key \in Keys(d)
    THEN [k \in 1..Len(d) |-> IF d[k][1] = key THEN <<key, value>> ELSE d[k]]
    ELSE Append(d, <<key, value>>)

DictGet(d, key) == d[CHOOSE k \in 1..Len(d) : d[k][1] = key][2]

\* for place in places_found: all_places[place['place_id']] = place
RECURSIVE MergePlaces(_, _)
MergePlaces(d, places) ==
    IF places = <<>> THEN d
    ELSE MergePlaces(DictSet(d, Head(places).place_id, Head(places)), Tail(places))

\* A mutation of LoopCond: pagination bounded by the token alone.
LoopCondNoCap(u, n) == u # "None"

\* while url and page_count < 3
LoopCond(u, n) == u # "None" /\ n < 3

\* A mutation of AfterException: the exception leaves fetch_places and main.
AbortOnException == "aborted"

\* except requests.exceptions.RequestException: print; break
AfterException == "return"

----------------------------------------------------------------------------
(* Spec: the __main__ run of 01.                                           *)

Init ==
    /\ pc = "start"
    /\ total_bounds \in Boxes
    /\ search_grid = <<>> /\ i = 0 /\ url = "None" /\ page_count = 0
    /\ results = <<>> /\ broke = FALSE /\ all_places = <<>>
    /\ requests = 0 /\ drawn = {} /\ searched = {}
    /\ last_failure = <<0, 0>> /\ reobserved = FALSE /\ waited = 0
    /\ GridIdle /\ AggIdle /\ HotIdle

\* Entry of fetch_places for grid point n (lines 22-28), or the end of the
\* for loop over search_grid (lines 124-132).
EnterPoint(n) ==
    IF n <= Len(search_grid')
    THEN /\ i' = n /\ pc' = "request" /\ url' = "seed" /\ page_count' = 0
         /\ results' = <<>> /\ broke' = FALSE /\ requests' = 0 /\ waited' = 0
    ELSE /\ i' = n /\ pc' = "done" /\ url' = "None" /\ page_count' = 0
         /\ results' = <<>> /\ broke' = FALSE /\ requests' = 0 /\ waited' = 0

\* search_grid = create_search_grid(tracts_gdf, RADIUS), then the first point.
CreateGrid ==
    /\ pc = "start"
    /\ IF create_search_grid_raises(total_bounds, RADIUS)
       THEN /\ pc' = "aborted"
            /\ UNCHANGED <<search_grid, i, url, page_count, results, broke, requests,
                           waited>>
       ELSE /\ search_grid' = create_search_grid(total_bounds, RADIUS)
            /\ EnterPoint(1)
    /\ UNCHANGED <<total_bounds, all_places, drawn, searched, last_failure, reobserved>>
    /\ UNCHANGED <<gridVars, aggVars, hotVars>>

IssueRequest ==
    /\ pc = "request"
    /\ LoopCond(url, page_count)
    /\ requests' = requests + 1
    /\ searched' = IF url = "seed" THEN searched \cup {i} ELSE searched
    /\ UNCHANGED <<gridVars, aggVars, hotVars>>

\* One iteration of the while loop: requests.get raises RequestException, or
\* raise_for_status does (lines 30-36).
RequestFails ==
    /\ IssueRequest
    /\ pc' = AfterException
    /\ broke' = TRUE
    /\ last_failure' = <<i, page_count + 1>>
    /\ UNCHANGED <<total_bounds, search_grid, i, url, page_count, results,
                   all_places, drawn, reobserved, waited>>

\* One iteration of the while loop with a page drawn (lines 31-33, 38-59); the
\* loop test that follows a page without a token is taken with it.
RequestPage ==
    /\ IssueRequest
    /\ \E page \in Pages, next_page_token \in BOOLEAN :
          /\ results' = results \o page
          /\ drawn' = drawn \cup Ids(page)
          /\ page_count' = page_count + 1
          /\ waited' = 0
          /\ IF next_page_token
             THEN /\ pc' = "sleep" /\ url' = url
             ELSE /\ pc' = "return" /\ url' = "None"
    /\ UNCHANGED <<total_bounds, search_grid, i, broke, all_places, last_failure,
                   reobserved>>

\* A page holding a place without 'geometry': place['geometry'] raises KeyError,
\* which no handler catches (lines 44-45).
RequestMalformed ==
    /\ IssueRequest
    /\ pc' = "aborted"
    /\ UNCHANGED <<total_bounds, search_grid, i, url, page_count, results, broke,
                   all_places, drawn, last_failure, reobserved, waited>>

\* A mutation of AfterSleep: the token url is built without the delay.
AfterNoSleep(t) == t

\* time.sleep(2): the call returns 2 seconds later.
AfterSleep(t) == t + 2

\* time.sleep(2), the token url, and the loop test (lines 53-57, 29).
Sleep ==
    /\ pc = "sleep"
    /\ waited' = AfterSleep(waited)
    /\ url' = "pagetoken"
    /\ pc' = IF LoopCond("pagetoken", page_count) THEN "request" ELSE "return"
    /\ UNCHANGED <<total_bounds, search_grid, i, page_count, results, broke,
                   all_places, requests, drawn, searched, last_failure, reobserved>>
    /\ UNCHANGED <<gridVars, aggVars, hotVars>>

\* return results; the merge loop of __main__ (lines 61, 118-122); the next
\* grid point.
ReturnAndMerge ==
    /\ pc = "return"
    /\ all_places' = MergePlaces(all_places, results)
    /\ search_grid' = search_grid
    /\ reobserved' = (reobserved \/
                        Len(results) > Cardinality(Ids(results) \ Keys(all_places)))
    /\ EnterPoint(i + 1)
    /\ UNCHANGED <<total_bounds, drawn, searched, last_failure>>
    /\ UNCHANGED <<gridVars, aggVars, hotVars>>

Next ==
    \/ CreateGrid
    \/ RequestFails
    \/ RequestPage
    \/ RequestMalformed
    \/ Sleep
    \/ ReturnAndMerge

Spec == Init /\ [][Next]_vars

----------------------------------------------------------------------------
(* Claims about the collection run (Spec).                                 *)

\* C1: after collection the registry holds exactly one entry for each
\* place_id that appeared in a drawn page and no other entry (and never two
\* entries for one place_id), and a merge grows the registry only by the
\* place_ids it did not hold yet: a place_id observed again leaves its size
\* as it was.
C1_RegistryDedup ==
    /\ [](\A id \in PlaceIds : Count(all_places, id) <= 1)
    /\ [](pc = "done" =>
            \A id \in PlaceIds :
                Count(all_places, id) = IF id \in drawn THEN 1 ELSE 0)
    /\ [][pc = "return" =>
            Len(all_places') =
                Len(all_places) + Cardinality(Ids(results) \ Keys(all_places))]_vars

\* Collection ended over two grid points, a registered place_id was observed
\* again, and the registry holds the one place drawn.
C1_Witness ==
    /\ pc = "done" /\ reobserved /\ searched = {1, 2}
    /\ drawn = {"p1"} /\ Len(all_places) = 1

\* C2: fetch_places issues at most 3 requests for one grid point, whatever
\* the responses.
C2_PaginationBound == requests <= 3

\* Three pages were drawn and the third carried a token too: pagination
\* stopped with the token url still set.
C2_Witness ==
    pc = "return" /\ requests = 3 /\ page_count = 3 /\ url = "pagetoken"

\* C3: a failed request ends pagination for its grid point only.  The failing
\* step keeps the pages already drawn and the registry and goes on to the
\* return, not to an abort; the merge that follows registers every place of
\* those pages (the last observation of each place_id), keeps every key
\* already registered and leaves the entries of the place_ids this point did
\* not draw as they were; the next grid point is then searched; and a run that
\* ends has issued the seed request of every grid point.
C3_FailureIsLocal ==
    /\ [][(pc = "request" /\ broke') =>
            /\ pc' = "return"
            /\ results' = results /\ all_places' = all_places
            /\ i' = i /\ search_grid' = search_grid]_vars
    /\ [][(pc = "return" /\ broke) =>
            /\ \A k \in 1..Len(results) :
                  /\ Count(all_places', results[k].place_id) = 1
                  /\ (\A j \in (k + 1)..Len(results) :
                          results[j].place_id # results[k].place_id)
                     => DictGet(all_places', results[k].place_id) = results[k]
            /\ Keys(all_places) \subseteq Keys(all_places')
            /\ \A k \in 1..Len(all_places) :
                  all_places[k][1] \notin Ids(results)
                  => all_places'[k] = all_places[k]
            /\ i' = i + 1
            /\ (i < Len(search_grid) => pc' = "request" /\ url' = "seed")]_vars
    /\ [](pc = "done" => searched = 1..Len(search_grid))

\* C11: within one grid point, every request after the first is a
\* continuation-token request and is issued only once the 2-second sleep that
\* follows the response carrying the token has completed; no follow-up
\* request is issued with no delay since the preceding response.
C11_DelayBeforeFollowUp ==
    [][(requests' = requests + 1 /\ requests >= 1) =>
            (url = "pagetoken" /\ waited >= 2)]_vars

\* The second request of a grid point was issued and its page drawn.
C11_Witness ==
    requests = 2 /\ page_count = 2 /\ url = "pagetoken"

\* The second request of grid point 1 failed, the page drawn before it was
\* merged, and the seed request of grid point 2 has been issued.
C3_Witness ==
    /\ last_failure = <<1, 2>> /\ i = 2 /\ 2 \in searched
    /\ Len(all_places) = 1

----------------------------------------------------------------------------
(* SpecGrid: create_search_grid applied to a bounding box and a radius.    *)

\* total_bounds of a geometry: minx <= maxx and miny <= maxy.
GridBounds ==
    {b \in (0..MaxCoord) \X (0..MaxCoord) \X (0..MaxCoord) \X (0..MaxCoord) :
        b[1] <= b[3] /\ b[2] <= b[4]}

GridRadii == (-1)..MaxRadius

InitGrid ==
    /\ g_state = "call"
    /\ g_bounds \in GridBounds
    /\ g_radius_m \in GridRadii
    /\ g_points = <<>>
    /\ CollectIdle /\ AggIdle /\ HotIdle

\* create_search_grid returns its list of grid points.
GridReturns ==
    /\ g_state = "call"
    /\ ~create_search_grid_raises(g_bounds, g_radius_m)
    /\ g_points' = create_search_grid(g_bounds, g_radius_m)
    /\ g_state' = "returned"
    /\ UNCHANGED <<g_bounds, g_radius_m, collectVars, aggVars, hotVars>>

\* np.arange raises inside create_search_grid, which has no handler.
GridRaises ==
    /\ g_state = "call"
    /\ create_search_grid_raises(g_bounds, g_radius_m)
    /\ g_state' = "raised"
    /\ UNCHANGED <<g_bounds, g_radius_m, g_points, collectVars, aggVars, hotVars>>

NextGrid ==
    \/ GridReturns
    \/ GridRaises

SpecGrid == InitGrid /\ [][NextGrid]_vars

\* Squared distance between two <<latitude, longitude>> points.
Dist2(p, q) == (p[1] - q[1]) * (p[1] - q[1]) + (p[2] - q[2]) * (p[2] - q[2])

\* The integer points of the bounding box, as <<latitude, longitude>>.
BoxSample(bounds) == (bounds[2]..bounds[4]) \X (bounds[1]..bounds[3])

\* C7: for a positive radius, every point of the bounding box lies within
\* radius_deg of some grid point create_search_grid generated (stated for the
\* boxes of positive area, where the grid is not empty).
C7_GridCoverage ==
    (/\ g_state = "returned" /\ g_radius_m > 0
     /\ g_bounds[1] < g_bounds[3] /\ g_bounds[2] < g_bounds[4]) =>
        \A p \in BoxSample(g_bounds) :
            \E k \in 1..Len(g_points) :
                Dist2(p, g_points[k]) <= radius_deg(g_radius_m) * radius_deg(g_radius_m)

\* C10: with radius_m <= 0 or minLon >= maxLon, create_search_grid returns an
\* empty sequence and does not raise.
C10_GridNeverFails ==
    (g_state # "call" /\ (g_radius_m <= 0 \/ g_bounds[1] >= g_bounds[3])) =>
        (g_state = "returned" /\ g_points = <<>>)

----------------------------------------------------------------------------
(* Numbers of the pandas tables: float64 values as exact fractions n / d,  *)
(* d > 0, in lowest terms, and NaN.                                        *)

NaN == [nan |-> TRUE, n |-> 0, d |-> 1]

RECURSIVE Gcd(_, _)
Gcd(a, b) == IF b = 0 THEN a ELSE Gcd(b, a % b)

Abs(x) == IF x < 0 THEN -x ELSE x

Frac(n, d) ==
    LET g == Gcd(Abs(n), d)
    IN [nan |-> FALSE, n |-> n \div g, d |-> d \div g]

Num(k) == [nan |-> FALSE, n |-> k, d |-> 1]

IsNaN(a) == a.nan

Plus(a, b) ==
    IF a.nan \/ b.nan THEN NaN ELSE Frac(a.n * b.d + b.n * a.d, a.d * b.d)

Times(a, b) ==
    IF a.nan \/ b.nan THEN NaN ELSE Frac(a.n * b.n, a.d * b.d)

\* float64 division: anything by NaN and 0 / 0 are NaN.  x / 0 with x # 0 is
\* an infinity, written n / 0 here; it needs v + m = 0 with v # 0, which sums
\* and quantiles of review counts >= 0 never give.
Over(a, b) ==
    IF a.nan \/ b.nan THEN NaN
    ELSE IF b.n = 0
         THEN (IF a.n = 0 THEN NaN ELSE [nan |-> FALSE, n |-> a.n, d |-> 0])
         ELSE IF b.n > 0 THEN Frac(a.n * b.d, a.d * b.n)
              ELSE Frac(-(a.n * b.d), -(a.d * b.n))

\* a <= b and a == b on floats: False when either side is NaN.
Leq(a, b) == ~a.nan /\ ~b.nan /\ a.n * b.d <= b.n * a.d

Eq(a, b) == ~a.nan /\ ~b.nan /\ a.n * b.d = b.n * a.d

\* Series.fillna(0) on one value.
FillNa0(a) == IF a.nan THEN Num(0) ELSE a

\* The non-missing values of a column.
DropNa(col) == SelectSeq(col, LAMBDA a : ~a.nan)

RECURSIVE SumSeq(_)
SumSeq(col) == IF col = <<>> THEN Num(0) ELSE Plus(Head(col), SumSeq(Tail(col)))

\* Series.sum() / the 'sum' aggregation: missing values are skipped, and the
\* sum of nothing is 0.
PdSum(col) == SumSeq(DropNa(col))

\* Series.mean() / the 'mean' aggregation: missing values are skipped, and the
\* mean of nothing is NaN.
PdMean(col) ==
    LET xs == DropNa(col)
    IN IF xs = <<>> THEN NaN ELSE Over(SumSeq(xs), Num(Len(xs)))

\* Ascending sort of non-missing values.
RECURSIVE Insert(_, _)
Insert(x, sorted) ==
    IF sorted = <<>> THEN <<x>>
    ELSE IF Leq(x, Head(sorted)) THEN <<x>> \o sorted
         ELSE <<Head(sorted)>> \o Insert(x, Tail(sorted))

RECURSIVE SortValues(_)
SortValues(col) == IF col = <<>> THEN <<>> ELSE Insert(Head(col), SortValues(Tail(col)))

\* Series.quantile(0.75), linear interpolation: missing values are skipped;
\* with n values sorted, the value at position 0.75 * (n - 1), interpolated
\* between its two neighbours; NaN when there is no value.
Quantile75(col) ==
    LET xs == SortValues(DropNa(col))
        h == 3 * (Len(xs) - 1)
        lo == (h \div 4) + 1
        r == h % 4
    IN IF xs = <<>> THEN NaN
       ELSE IF r = 0 THEN xs[lo]
       ELSE Plus(xs[lo],
                 Times(Frac(r, 4), Plus(xs[lo + 1], Times(Num(-1), xs[lo]))))

----------------------------------------------------------------------------
(* 02_master_script.py, main: the tables.                                  *)
(* A tract's geometry is the set of longitudes it covers (tracts are       *)
(* strips), and a shop's point is its longitude; a point is `within` a     *)
(* tract when its longitude is in the tract's set.  The empty name is the  *)
(* empty CSV field, which read_csv reads as missing.                       *)

ShopNames == {"", "x"}

ShopLongitudes == {0, 1, 2}

ShopRatings == {NaN, Num(4), Num(5)}

ShopReviews == {NaN, Num(0), Num(10)}

ShopRows ==
    [name : ShopNames, longitude : ShopLongitudes, rating : ShopRatings,
     review_count : ShopReviews]

ShopTables == UNION {[1..n -> ShopRows] : n \in 0..MaxShops}

\* The GEOIDs in ascending (lexicographic) order, the order groupby sorts its
\* keys in.
GeoidOrder == <<"06065000100", "06065000200">>

\* The reference data main loads: the tracts of the county, each GEOID once,
\* and the census rows, at most one per GEOID.  In the first, the tracts are
\* disjoint and each has a census row (longitude 2 is outside the county); in
\* the second, the tracts overlap at longitude 1 and one has no census row.
References ==
    { [tracts |-> << [GEOID |-> "06065000100", geometry |-> {0}],
                     [GEOID |-> "06065000200", geometry |-> {1}] >>,
       demographics |->
                  << [GEOID |-> "06065000100", TotalPopulation |-> Num(50000),
                      MedianHouseholdIncome |-> Num(90000)],
                     [GEOID |-> "06065000200", TotalPopulation |-> Num(5000),
                      MedianHouseholdIncome |-> NaN] >>],
      [tracts |-> << [GEOID |-> "06065000200", geometry |-> {0, 1}],
                     [GEOID |-> "06065000100", geometry |-> {1}] >>,
       demographics |->
                  << [GEOID |-> "06065000100", TotalPopulation |-> Num(5000),
                      MedianHouseholdIncome |-> Num(30000)] >>] }

Column(rows, field) == [k \in 1..Len(rows) |-> rows[k][field]]

RECURSIVE Concat(_)
Concat(seqs) == IF seqs = <<>> THEN <<>> ELSE Head(seqs) \o Concat(Tail(seqs))

\* gpd.sjoin(shops_gdf, tracts_gdf, how="inner", predicate="within"): one row
\* per (shop, tract) pair with the shop's point within the tract.
Sjoin(shops, tracts) ==
    Concat([k \in 1..Len(shops) |->
              LET hit == SelectSeq(tracts,
                                   LAMBDA t : shops[k].longitude \in t.geometry)
              IN [j \in 1..Len(hit) |-> shops[k] @@ [GEOID |-> hit[j].GEOID]]])

\* The 'count' aggregation: the non-missing values of the column.
PdCount(col) == Len(SelectSeq(col, LAMBDA x : x # ""))

\* groupby('GEOID').agg(ShopCount=('name', 'count'), AvgRating=('rating',
\* 'mean'), TotalReviews=('review_count', 'sum')).reset_index(): one row per
\* GEOID that has joined rows, keys ascending.
GroupByAgg(joined) ==
    LET keys == SelectSeq(GeoidOrder,
                          LAMBDA g : \E k \in 1..Len(joined) : joined[k].GEOID = g)
        group(g) == SelectSeq(joined, LAMBDA r : r.GEOID = g)
    IN [k \in 1..Len(keys) |->
          [GEOID |-> keys[k],
           ShopCount |-> Num(PdCount(Column(group(keys[k]), "name"))),
           AvgRating |-> PdMean(Column(group(keys[k]), "rating")),
           TotalReviews |-> PdSum(Column(group(keys[k]), "review_count"))]]

\* A mutation of LeftMerge: how='inner', which drops the rows without a match.
InnerMerge(left, right, missing) ==
    Concat([k \in 1..Len(left) |->
              LET hit == SelectSeq(right, LAMBDA r : r.GEOID = left[k].GEOID)
              IN [j \in 1..Len(hit) |-> left[k] @@ hit[j]]])

\* left.merge(right, on='GEOID', how='left'): for each left row in order, one
\* row per right row of the same GEOID, or one row with the right columns
\* missing.
LeftMerge(left, right, missing) ==
    Concat([k \in 1..Len(left) |->
              LET hit == SelectSeq(right, LAMBDA r : r.GEOID = left[k].GEOID)
              IN IF hit = <<>> THEN <<left[k] @@ missing>>
                 ELSE [j \in 1..Len(hit) |-> left[k] @@ hit[j]]])

NoAggregate == [ShopCount |-> NaN, AvgRating |-> NaN, TotalReviews |-> NaN]

NoDemographics == [TotalPopulation |-> NaN, MedianHouseholdIncome |-> NaN]

\* final_gdf.fillna(value={'ShopCount': 0, 'AvgRating': 0, 'TotalReviews': 0})
FillValues(rows) ==
    [k \in 1..Len(rows) |->
        [rows[k] EXCEPT !.ShopCount = FillNa0(@), !.AvgRating = FillNa0(@),
                        !.TotalReviews = FillNa0(@)]]

\* A mutation of WeightedAvgRating: the prior term left unweighted.
WeightedUnweightedPrior(v, R, m, C) ==
    FillNa0(Plus(Times(Over(v, Plus(v, m)), R), Times(m, C)))

\* (v / (v + m)) * R + (m / (v + m)) * C, then .fillna(0)
WeightedAvgRating(v, R, m, C) ==
    FillNa0(Plus(Times(Over(v, Plus(v, m)), R), Times(Over(m, Plus(v, m)), C)))

----------------------------------------------------------------------------
(* SpecAgg: main of 02 from the loaded tables to the final table.          *)

InitAgg ==
    /\ a_pc = "join"
    /\ shops_df \in ShopTables
    /\ \E ref \in References :
          /\ tracts_gdf = ref.tracts
          /\ demographics_df = ref.demographics
    /\ final_gdf = <<>>
    /\ C_m = <<>>
    /\ CollectIdle /\ GridIdle /\ HotIdle

\* STEP 4: the spatial join, the aggregation, the two merges and the fill.
JoinAndAggregate ==
    /\ a_pc = "join"
    /\ LET shops_with_tract_data == Sjoin(shops_df, tracts_gdf)
           aggregated_shops == GroupByAgg(shops_with_tract_data)
           merged == LeftMerge(LeftMerge(tracts_gdf, aggregated_shops, NoAggregate),
                               demographics_df, NoDemographics)
       IN final_gdf' = FillValues(merged)
    /\ a_pc' = "weight"
    /\ UNCHANGED <<shops_df, tracts_gdf, demographics_df, C_m>>
    /\ UNCHANGED <<collectVars, gridVars, hotVars>>

\* The weighted average rating of every row, from the global C and m.
WeightRatings ==
    /\ a_pc = "weight"
    /\ LET C == PdMean(Column(shops_df, "rating"))
           m == Quantile75(Column(shops_df, "review_count"))
       IN /\ C_m' = <<C, m>>
          /\ final_gdf' =
                [k \in 1..Len(final_gdf) |->
                    final_gdf[k] @@
                    [WeightedAvgRating |->
                        WeightedAvgRating(final_gdf[k].TotalReviews,
                                          final_gdf[k].AvgRating, m, C)]]
    /\ a_pc' = "done"
    /\ UNCHANGED <<shops_df, tracts_gdf, demographics_df>>
    /\ UNCHANGED <<collectVars, gridVars, hotVars>>

NextAgg ==
    \/ JoinAndAggregate
    \/ WeightRatings

SpecAgg == InitAgg /\ [][NextAgg]_vars

----------------------------------------------------------------------------
(* Claims about the aggregation (SpecAgg).                                 *)

\* The shops whose point lies within the tract of the given GEOID.
ShopsWithin(geoid) ==
    {k \in 1..Len(shops_df) :
        \E t \in 1..Len(tracts_gdf) :
            /\ tracts_gdf[t].GEOID = geoid
            /\ shops_df[k].longitude \in tracts_gdf[t].geometry}

\* C4: the table the spatial join and the merges produce holds exactly one
\* record per input tract, in the tracts' order: none dropped, none
\* duplicated, the tracts that matched no place included.
C4_LeftJoinComplete ==
    a_pc # "join" =>
        /\ Len(final_gdf) = Len(tracts_gdf)
        /\ \A k \in 1..Len(final_gdf) : final_gdf[k].GEOID = tracts_gdf[k].GEOID

\* The final table of a run in which one tract matched no place and another
\* matched two.
C4_Witness ==
    /\ a_pc = "done"
    /\ \E k \in 1..Len(final_gdf) : ShopsWithin(final_gdf[k].GEOID) = {}
    /\ \E k \in 1..Len(final_gdf) :
          Cardinality(ShopsWithin(final_gdf[k].GEOID)) = 2

\* C5: every tract that matched no place ends with ShopCount = 0,
\* AvgRating = 0, TotalReviews = 0 and WeightedAvgRating = 0, whatever C
\* and m are.
C5_ZeroShopRegionAllZero ==
    a_pc = "done" =>
        \A k \in 1..Len(final_gdf) :
            ShopsWithin(final_gdf[k].GEOID) = {} =>
                /\ Eq(final_gdf[k].ShopCount, Num(0))
                /\ Eq(final_gdf[k].AvgRating, Num(0))
                /\ Eq(final_gdf[k].TotalReviews, Num(0))
                /\ Eq(final_gdf[k].WeightedAvgRating, Num(0))

\* C6: in every record after the fill, ShopCount = 0 exactly when
\* AvgRating = 0 and TotalReviews = 0.
C6_ZeroCountIffZeroStats ==
    a_pc # "join" =>
        \A k \in 1..Len(final_gdf) :
            Eq(final_gdf[k].ShopCount, Num(0))
            <=> (/\ Eq(final_gdf[k].AvgRating, Num(0))
                 /\ Eq(final_gdf[k].TotalReviews, Num(0)))

\* C12: in every record, ShopCount is the number of places whose point lies
\* within the tract, whatever other fields of a place are missing; a place
\* within no tract is in no tract's set, so it is counted nowhere.
C12_ShopCountIsPlacesWithin ==
    a_pc # "join" =>
        \A k \in 1..Len(final_gdf) :
            Eq(final_gdf[k].ShopCount,
               Num(Cardinality(ShopsWithin(final_gdf[k].GEOID))))

----------------------------------------------------------------------------
(* 03_analyze_data.py, main: the hotspot filter.                           *)

HotPopulations == {NaN, Num(1), Num(5)}

HotIncomes == {NaN, Num(1), Num(3)}

HotShopCounts == {Num(0), Num(2)}

\* The rows of final_processed_data.geojson the filter reads; `row` is the
\* row's index label.
HotTables ==
    UNION {{t \in [1..n -> [row : 1..n, TotalPopulation : HotPopulations,
                            MedianHouseholdIncome : HotIncomes,
                            ShopCount : HotShopCounts]] :
               \A k \in 1..n : t[k].row = k} : n \in 0..MaxRegions}

\* A mutation of Hotspots: strict comparisons with the thresholds.
HotspotsStrict(rows, pop_threshold, income_threshold) ==
    SelectSeq(rows,
              LAMBDA r : /\ Leq(pop_threshold, r.TotalPopulation)
                         /\ ~Eq(pop_threshold, r.TotalPopulation)
                         /\ Leq(income_threshold, r.MedianHouseholdIncome)
                         /\ ~Eq(income_threshold, r.MedianHouseholdIncome)
                         /\ Eq(r.ShopCount, Num(0)))

\* gdf[(TotalPopulation >= pop_threshold) & (MedianHouseholdIncome >=
\* income_threshold) & (ShopCount == 0)]
Hotspots(rows, pop_threshold, income_threshold) ==
    SelectSeq(rows,
              LAMBDA r : /\ Leq(pop_threshold, r.TotalPopulation)
                         /\ Leq(income_threshold, r.MedianHouseholdIncome)
                         /\ Eq(r.ShopCount, Num(0)))

InitHot ==
    /\ h_pc = "loaded"
    /\ gdf \in HotTables
    /\ hotspots_df = <<>>
    /\ CollectIdle /\ GridIdle /\ AggIdle

\* Analysis 3: the two thresholds and the filtered table.
FindHotspots ==
    /\ h_pc = "loaded"
    /\ LET pop_threshold == Quantile75(Column(gdf, "TotalPopulation"))
           income_threshold == Quantile75(Column(gdf, "MedianHouseholdIncome"))
       IN hotspots_df' = Hotspots(gdf, pop_threshold, income_threshold)
    /\ h_pc' = "done"
    /\ UNCHANGED <<gdf, collectVars, gridVars, aggVars>>

NextHot == FindHotspots

SpecHot == InitHot /\ [][NextHot]_vars

----------------------------------------------------------------------------
(* Claims about the hotspot filter (SpecHot).                              *)

\* The 75th percentile of the non-missing values of a column, stated by
\* rank: the j-th smallest value is the one with fewer than j values below it
\* and at least j values not above it; the percentile lies 0.75 * (n - 1)
\* ranks above the smallest, a fraction of the way between two neighbours.
Ranked(col, j) ==
    LET xs == DropNa(col)
        below(x) == Cardinality({k \in 1..Len(xs) : ~Leq(x, xs[k])})
        upto(x) == Cardinality({k \in 1..Len(xs) : Leq(xs[k], x)})
    IN xs[CHOOSE k \in 1..Len(xs) : below(xs[k]) < j /\ j <= upto(xs[k])]

P75(col) ==
    LET n == Len(DropNa(col))
        lo == ((3 * (n - 1)) \div 4) + 1
        r == (3 * (n - 1)) % 4
    IN IF n = 0 THEN NaN
       ELSE IF r = 0 THEN Ranked(col, lo)
       ELSE LET a == Ranked(col, lo)
                b == Ranked(col, lo + 1)
            IN Frac((4 - r) * a.n * b.d + r * b.n * a.d, 4 * a.d * b.d)

\* The region meets the three conditions of a hotspot.
IsHotspot(r) ==
    /\ Leq(P75(Column(gdf, "TotalPopulation")), r.TotalPopulation)
    /\ Leq(P75(Column(gdf, "MedianHouseholdIncome")), r.MedianHouseholdIncome)
    /\ Eq(r.ShopCount, Num(0))

\* C9: the hotspot result is exactly the regions with population >= the 75th
\* percentile of population, median income >= the 75th percentile of median
\* income (both over all the regions scored) and ShopCount = 0: each such
\* region once, and no other.
C9_HotspotsExact ==
    h_pc = "done" =>
        /\ \A k \in 1..Len(gdf) :
              IsHotspot(gdf[k])
              <=> Cardinality({j \in 1..Len(hotspots_df) :
                                  hotspots_df[j] = gdf[k]}) = 1
        /\ \A j \in 1..Len(hotspots_df) :
              /\ hotspots_df[j].row \in 1..Len(gdf)
              /\ hotspots_df[j] = gdf[hotspots_df[j].row]
              /\ Eq(hotspots_df[j].ShopCount, Num(0))

\* A hotspot was found, while a region at both thresholds that has shops and
\* a region without shops below the population threshold were left out.
C9_Witness ==
    /\ h_pc = "done"
    /\ Len(hotspots_df) = 1
    /\ \E k \in 1..Len(gdf) :
          /\ Leq(P75(Column(gdf, "TotalPopulation")), gdf[k].TotalPopulation)
          /\ Leq(P75(Column(gdf, "MedianHouseholdIncome")),
                 gdf[k].MedianHouseholdIncome)
          /\ ~Eq(gdf[k].ShopCount, Num(0))
    /\ \E k \in 1..Len(gdf) :
          /\ Eq(gdf[k].ShopCount, Num(0))
          /\ ~IsNaN(gdf[k].TotalPopulation)
          /\ ~Leq(P75(Column(gdf, "TotalPopulation")), gdf[k].TotalPopulation)

====
